---- MODULE Spec2Model ----
(***************************************************************************)
(* LoadContracts: the Compiler object of load_contracts/compiler.py        *)
(* (source discovery, address precomputation, shortcut table, import       *)
(* rewriting) and the transaction broadcaster broadcast_code.              *)
(*                                                                         *)
(* Strings are tuples of one-character strings, so that basename, slicing  *)
(* and the substring test `in` are computed and not assumed.               *)
(* A Python dict is a function whose DOMAIN is its set of keys.            *)
(***************************************************************************)
EXTENDS Integers, Sequences, FiniteSets, TLC

VARIABLES
    contract_info,  \* Compiler.contract_info: list of c_info dicts
    shortcuts,      \* Compiler.shortcuts: shortcut -> index of the aliased c_info
    txcount,        \* node side: the creator account's transaction count
    raised,         \* the uncaught exception that ended the process, or "None"
    last,           \* the Compiler method that ran last
    pc,             \* broadcast_code: position of the control
    cur,            \* index (1-based) of the module being broadcast
    tries,          \* broadcast_code: local tries
    txhash,         \* broadcast_code: local txhash
    chain,          \* node side: the account's accepted creation transactions
    DB,             \* the manifest the broadcaster prints and dumps
    dump,           \* contents of load_contracts_FATAL_dump.json
    exit_status,    \* status given to sys.exit, or -1 while running
    log,            \* what the node and the operator answered, in order
    rpc_address,    \* Compiler.__init__: the rpc_address argument, later the field
    path_kind,      \* file system: what rpc_address names as a path
    RpcClass,       \* Compiler.RpcClass
    deps,           \* optimize_deps: the compile order
    contract_nodes, \* optimize_deps: module -> the modules it references
    CONTRACT,       \* optimize_deps: the module to recompile
    new_deps        \* optimize_deps: the list returned

vars == <<contract_info, shortcuts, txcount, raised, last, pc, cur, tries,
          txhash, chain, DB, dump, exit_status, log,
          rpc_address, path_kind, RpcClass, deps, contract_nodes, CONTRACT, new_deps>>

castVars == <<pc, cur, tries, txhash, chain, DB, dump, exit_status, log>>
rpcVars == <<rpc_address, path_kind, RpcClass>>
depVars == <<deps, contract_nodes, CONTRACT, new_deps>>

----------------------------------------------------------------------------
(* Bounds of the model *)

MaxModules == 2     \* longest contract_info explored
MaxBase == 1        \* largest transaction count the account starts with
MaxSends == 2       \* eth_sendTransaction calls explored in one build
TRIES == 2          \* global TRIES of broadcast_code (not set in the source)
MaxAddrLen == 4     \* longest rpc_address tried, two longer ones apart
MAXGAS == 2         \* rpc.MAXGAS of broadcast_code (not set in the source)

----------------------------------------------------------------------------
(* Strings *)

Last3(s) == SubSeq(s, Len(s) - 2, Len(s))

\* str.endswith('.se')
EndsWithSe(s) == Len(s) >= 3 /\ Last3(s) = <<".", "s", "e">>

\* os.path.join(dirname, basename), for a relative basename
PathJoin(dirname, basename) == dirname \o <<"/">> \o basename

\* os.path.basename: what follows the last "/"
Basename(path) ==
    LET slashes == {i \in 1..Len(path) : path[i] = "/"}
        from == IF slashes = {} THEN 1
                ELSE (CHOOSE i \in slashes : \A j \in slashes : j <= i) + 1
    IN  SubSeq(path, from, Len(path))

\* s[:-3]
DropLast3(s) == SubSeq(s, 1, Len(s) - 3)

\* s[2:]
From2(s) == SubSeq(s, 3, Len(s))

\* Python's `a in b` on strings: a is a contiguous part of b ('' is in every string)
StrIn(a, b) ==
    \E i \in 0..(Len(b) - Len(a)) : SubSeq(b, i + 1, i + Len(a)) = a

----------------------------------------------------------------------------
(* The file system the build reads *)

Dirs == {<<"a">>, <<"b">>}
Basenames == {<<"f", ".", "s", "e">>, <<"g", ".", "s", "e">>, <<"n", ".", "t", "x", "t">>}

PathAF == <<"a", "/", "f", ".", "s", "e">>
PathBF == <<"b", "/", "f", ".", "s", "e">>
PathAG == <<"a", "/", "g", ".", "s", "e">>
PathAN == <<"a", "/", "n", ".", "t", "x", "t">>

\* os.path.isfile
IsFile(path) == path \in {PathAF, PathBF, PathAG, PathAN}

KwImport == <<"i", "m", "p", "o", "r", "t">>
KwAs == <<"a", "s">>
KwMacro == <<"m", "a", "c", "r", "o">>
KwReturn == <<"r", "e", "t", "u", "r", "n">>

\* The lines of each file, each line a tuple of words.
\*   a/f.se imports g, b/f.se imports h (no such module), a/g.se imports nothing.
FileLines(path) ==
    IF path = PathAF THEN << <<KwImport, <<"g">>, KwAs, <<"G">>>>, <<KwReturn, <<"1">>>> >>
    ELSE IF path = PathBF THEN << <<KwReturn, <<"2">>>>, <<KwImport, <<"h">>, KwAs, <<"H">>>> >>
    ELSE << <<KwMacro, <<"x", ":">>, <<"3">>>>, <<KwReturn, <<"3">>>> >>

----------------------------------------------------------------------------
(* Address precomputation *)

raw_creator_address == <<"c", "r">>

\* rlp.encode of a non-negative integer below 256
RlpInt(n) == IF n = 0 THEN <<128>> ELSE IF n < 128 THEN <<n>> ELSE <<129, n>>

\* rlp.encode([raw_creator_address, nonce]): the list of the two encoded items
RlpSeed(creator, nonce) == <<"list", creator, RlpInt(nonce)>>

\* '0x' + sha3_256(seed).digest()[12:].encode('hex'); the digest is kept symbolic
computeAddress(creator, nonce) == <<"0x", <<"sha3_256", RlpSeed(creator, nonce)>>>>

\* an index that counts from 1
AddressForIndex_Shifted(tx_nonce, i) == computeAddress(raw_creator_address, tx_nonce + i + 1)

\* a loop that forgets to add the index to the nonce
AddressForIndex_SameNonce(tx_nonce, i) == computeAddress(raw_creator_address, tx_nonce)

\* the address given to the module at enumerate index i (0-based)
AddressForIndex(tx_nonce, i) == computeAddress(raw_creator_address, tx_nonce + i)

\* c_info[key] = value
DictSet(d, key, value) == (key :> value) @@ d

\* the loop of assign_addresses over contract_info
AssignAll(ci, tx_nonce) ==
    [k \in 1..Len(ci) |-> DictSet(ci[k], "address", AddressForIndex(tx_nonce, k - 1))]

----------------------------------------------------------------------------
(* Shortcut table *)

ShortcutOf(path) == DropLast3(Basename(path))

\* the loop of populate_shortcuts: a later module replaces an earlier one
RECURSIVE PopulateFrom(_, _, _)
PopulateFrom(table, ci, k) ==
    IF k > Len(ci) THEN table
    ELSE PopulateFrom(DictSet(table, ShortcutOf(ci[k].path), k), ci, k + 1)

EmptyDict == <<>>

----------------------------------------------------------------------------
(* Import rewriting *)

\* Compiler.import_pattern.match(line): "import <module> as <name>"
ImportMatch(line) == Len(line) = 4 /\ line[1] = KwImport /\ line[3] = KwAs

\* self.shortcuts[shortcut]['address'] raises KeyError
LookupFails(table, ci, shortcut) ==
    \/ shortcut \notin DOMAIN table
    \/ "address" \notin DOMAIN ci[table[shortcut]]

\* 'macro {}: {}\n'.format(macro, address)
MacroLine(macro, address) == <<KwMacro, macro \o <<":">>, address>>

\* the groups swapped: the macro is named after the module, not the alias
RewriteLine_BindsModule(table, ci, line) ==
    IF ImportMatch(line)
    THEN MacroLine(line[2], ci[table[line[2]]].address)
    ELSE line

\* one line of the inner loop, when the lookup succeeds
RewriteLine(table, ci, line) ==
    IF ImportMatch(line)
    THEN MacroLine(line[4], ci[table[line[2]]].address)
    ELSE line

\* the inner loop over one file: does some import line fail its lookup?
FileFails(table, ci, lines) ==
    \E n \in 1..Len(lines) : ImportMatch(lines[n]) /\ LookupFails(table, ci, lines[n][2])

\* an inner loop without its else branch: lines that are no import are dropped
RECURSIVE NewCode_OnlyImports(_, _, _)
NewCode_OnlyImports(table, ci, lines) ==
    IF lines = <<>> THEN <<>>
    ELSE (IF ImportMatch(Head(lines))
          THEN <<RewriteLine(table, ci, Head(lines))>>
          ELSE <<>>) \o NewCode_OnlyImports(table, ci, Tail(lines))

\* an inner loop that appends the line whether or not it matched
RECURSIVE NewCode_AppendsBoth(_, _, _)
NewCode_AppendsBoth(table, ci, lines) ==
    IF lines = <<>> THEN <<>>
    ELSE (IF ImportMatch(Head(lines))
          THEN <<RewriteLine(table, ci, Head(lines)), Head(lines)>>
          ELSE <<Head(lines)>>) \o NewCode_AppendsBoth(table, ci, Tail(lines))

\* new_code after the inner loop over one file, when every lookup succeeds
NewCode(table, ci, lines) == [n \in 1..Len(lines) |-> RewriteLine(table, ci, lines[n])]

\* a loop that swallows the KeyError and passes the file through unrewritten
RECURSIVE PreprocessFrom_Swallow(_, _, _)
PreprocessFrom_Swallow(table, ci, k) ==
    IF k > Len(ci) THEN [ci |-> ci, exc |-> "None"]
    ELSE PreprocessFrom_Swallow(table,
            [ci EXCEPT ![k] = DictSet(@, "new_code",
                IF FileFails(table, ci, FileLines(ci[k].path))
                THEN FileLines(ci[k].path)
                ELSE NewCode(table, ci, FileLines(ci[k].path)))],
            k + 1)

\* a loop that deletes the record of the module whose lookup failed
RECURSIVE PreprocessFrom_DropsFailed(_, _, _)
PreprocessFrom_DropsFailed(table, ci, k) ==
    IF k > Len(ci) THEN [ci |-> ci, exc |-> "None"]
    ELSE IF FileFails(table, ci, FileLines(ci[k].path))
    THEN [ci |-> SubSeq(ci, 1, k - 1) \o SubSeq(ci, k + 1, Len(ci)), exc |-> "KeyError"]
    ELSE PreprocessFrom_DropsFailed(table,
                        [ci EXCEPT ![k] = DictSet(@, "new_code",
                                                  NewCode(table, ci, FileLines(ci[k].path)))],
                        k + 1)

\* the outer loop of preprocess_with_macros from module k on; stops at the first KeyError
RECURSIVE PreprocessFrom(_, _, _)
PreprocessFrom(table, ci, k) ==
    IF k > Len(ci) THEN [ci |-> ci, exc |-> "None"]
    ELSE IF FileFails(table, ci, FileLines(ci[k].path)) THEN [ci |-> ci, exc |-> "KeyError"]
    ELSE PreprocessFrom(table,
                        [ci EXCEPT ![k] = DictSet(@, "new_code",
                                                  NewCode(table, ci, FileLines(ci[k].path)))],
                        k + 1)

----------------------------------------------------------------------------
(* The Compiler's methods as actions *)

NoTx == [kind |-> "unset"]

\* the Compiler was constructed with the address "h:1" of an HTTP node
Constructed ==
    /\ rpc_address = <<<<"h">>, 1>>
    /\ path_kind = "absent"
    /\ RpcClass = "HTTPRPCClient"

\* optimize_deps has not been called
NoDeps ==
    /\ deps = <<>>
    /\ contract_nodes = <<>>
    /\ CONTRACT = "None"
    /\ new_deps = <<>>

\* Compiler.__init__: contract_info = [], shortcuts = {}
InitBuild ==
    /\ contract_info = <<>>
    /\ shortcuts = EmptyDict
    /\ txcount \in 0..MaxBase
    /\ raised = "None"
    /\ last = "__init__"
    /\ pc = "idle"
    /\ cur = 0
    /\ tries = 0
    /\ txhash = NoTx
    /\ chain = <<>>
    /\ DB = <<>>
    /\ dump = <<>>
    /\ exit_status = -1
    /\ log = <<>>
    /\ Constructed
    /\ NoDeps

add_source_path(dirname, basename) ==
    /\ raised = "None"
    /\ Len(contract_info) < MaxModules
    /\ contract_info' =
          IF EndsWithSe(basename) /\ IsFile(PathJoin(dirname, basename))
          THEN Append(contract_info, [path |-> PathJoin(dirname, basename)])
          ELSE contract_info
    /\ last' = "add_source_path"
    /\ UNCHANGED <<shortcuts, raised, txcount>>
    /\ UNCHANGED castVars
    /\ UNCHANGED <<rpcVars, depVars>>

assign_addresses ==
    /\ raised = "None"
    /\ contract_info' = AssignAll(contract_info, txcount)
    /\ last' = "assign_addresses"
    /\ UNCHANGED <<shortcuts, raised, txcount>>
    /\ UNCHANGED castVars
    /\ UNCHANGED <<rpcVars, depVars>>

populate_shortcuts ==
    /\ raised = "None"
    /\ shortcuts' = PopulateFrom(shortcuts, contract_info, 1)
    /\ last' = "populate_shortcuts"
    /\ UNCHANGED <<contract_info, raised, txcount>>
    /\ UNCHANGED castVars
    /\ UNCHANGED <<rpcVars, depVars>>

preprocess_with_macros ==
    /\ raised = "None"
    /\ LET r == PreprocessFrom(shortcuts, contract_info, 1)
       IN  /\ contract_info' = r.ci
           /\ raised' = r.exc
    /\ last' = "preprocess_with_macros"
    /\ UNCHANGED <<shortcuts, txcount>>
    /\ UNCHANGED castVars
    /\ UNCHANGED <<rpcVars, depVars>>

NextBuild ==
    \/ \E d \in Dirs, b \in Basenames : add_source_path(d, b)
    \/ assign_addresses
    \/ populate_shortcuts
    \/ preprocess_with_macros

SpecBuild == InitBuild /\ [][NextBuild]_vars

----------------------------------------------------------------------------
(* The node, the compiler and the operator, as broadcast_code meets them *)

GasLimitCode == -32603
ErrorCodes == {GasLimitCode, -32000}
ErrorMessages == {"Exceeds block gas limit", "Nonce too low"}

\* what cost_estimate may return: below the maximum, and the maximum itself
Estimates == {MAXGAS - 1, MAXGAS}

\* what raw_input may return: '', 'Y', 'n', 'yes'
Answers == {<<>>, <<"Y">>, <<"n">>, <<"y", "e", "s">>}

NullTx == [kind |-> "null"]
Tx(nonce) == [kind |-> "tx", nonce |-> nonce]

EmptyCode == <<"0", "x">>
GarbageCode == <<"0", "x", "f", "f">>

\* the bytecode the Serpent compiler gives for a module: an init prefix, then
\* the runtime code, which is what a successful creation stores
RuntimeHex(c_info) == <<"c">> \o ShortcutOf(c_info.path)
Evm(c_info) == <<"0", "x", "6", "0">> \o RuntimeHex(c_info)
RuntimeCode(c_info) == <<"0", "x">> \o RuntimeHex(c_info)

\* the transaction count the account had before the first broadcast
Base == txcount - Len(chain)

\* the creation address of the j-th accepted transaction
ContractAddress(j) == computeAddress(raw_creator_address, Base + (j - 1))

NumMined(ch) == Cardinality({j \in 1..Len(ch) : ch[j].mined})

\* the code a mined creation may leave: the runtime code, nothing, or other code
StoredCodes(tx) == {RuntimeCode(contract_info[tx.mod]), EmptyCode, GarbageCode}

\* the chains one block interval later: transactions are mined in nonce order
ChainsAfterSleep(ch) ==
    {ch} \cup
    { [j \in 1..Len(ch) |->
          IF j = NumMined(ch) + 1 THEN [ch[j] EXCEPT !.mined = TRUE, !.code = c]
          ELSE ch[j]] :
      c \in IF NumMined(ch) < Len(ch) THEN StoredCodes(ch[NumMined(ch) + 1]) ELSE {} }

\* eth_getTransactionReceipt(txhash)['result'] is not None
HasReceipt(ch, hash) ==
    /\ hash.kind = "tx"
    /\ ch[hash.nonce - Base + 1].mined

\* receipt['contractAddress']
ReceiptAddress(hash) == ContractAddress(hash.nonce - Base + 1)

\* eth_getCode(address)['result']
GetCode(ch, address) ==
    IF \E j \in 1..Len(ch) : ch[j].mined /\ ContractAddress(j) = address
    THEN ch[CHOOSE j \in 1..Len(ch) : ch[j].mined /\ ContractAddress(j) = address].code
    ELSE EmptyCode

----------------------------------------------------------------------------
(* broadcast_code *)

\* log entry: an answer `ev` of the node or the operator while module cur is
\* broadcast, with the value that came with it
Event(ev, arg) == [ev |-> ev, mod |-> cur, arg |-> arg]

\* the answers to eth_sendTransaction: one per call
SendEvents == {"accepted", "gas_limit", "error"}

NumSends == Cardinality({p \in 1..Len(log) : log[p].ev \in SendEvents})

\* the error is the block-gas-limit rejection
IsGasLimit(code, message) == code = GasLimitCode /\ message = "Exceeds block gas limit"

\* a comparison with the whole of the submitted bytecode
CodeAccepted_Exact(check, evm) == check = evm

\* check != '0x' and check[2:] in evm
CodeAccepted(check, evm) == check # EmptyCode /\ StrIn(From2(check), evm)

\* an answer that must be the letter itself
AnswerRetries_Exact(user_input) == user_input \in {<<"Y">>, <<"y">>}

\* user_input in 'Yy'
AnswerRetries(user_input) == StrIn(user_input, <<"Y", "y">>)

\* a loop that forgets to count
NextTries_Stuck(t) == t

\* tries += 1
NextTries(t) == t + 1

\* while tries < TRIES: the loop goes on, or the prompt is reached
AfterTry(t) == IF t < TRIES THEN "poll" ELSE "prompt"

\* the state the build reaches when the module list `paths` is discovered and
\* assign_addresses, populate_shortcuts and preprocess_with_macros run
Built(paths, base) ==
    LET ci0 == [k \in 1..Len(paths) |-> [path |-> paths[k]]]
        ci1 == AssignAll(ci0, base)
        table == PopulateFrom(EmptyDict, ci1, 1)
        r == PreprocessFrom(table, ci1, 1)
    IN  [ci |-> r.ci, table |-> table, exc |-> r.exc]

ModuleLists ==
    UNION {[1..n -> {PathAF, PathAG, PathBF}] : n \in 1..MaxModules}

\* broadcasting starts after a build that raised nothing
InitBroadcast ==
    /\ \E paths \in ModuleLists, base \in 0..MaxBase :
          /\ Built(paths, base).exc = "None"
          /\ contract_info = Built(paths, base).ci
          /\ shortcuts = Built(paths, base).table
          /\ txcount = base
    /\ raised = "None"
    /\ last = "preprocess_with_macros"
    /\ pc = "send"
    /\ cur = 1
    /\ tries = 0
    /\ txhash = NoTx
    /\ chain = <<>>
    /\ DB = contract_info
    /\ dump = <<>>
    /\ exit_status = -1
    /\ log = <<>>
    /\ Constructed
    /\ NoDeps

\* broadcast_code returns the contract address: the module is recorded as
\* deployed and the next module of contract_info, if any, is broadcast
Return(address, event) ==
    /\ DB' = [DB EXCEPT ![cur] = DictSet(@, "deployed", address)]
    /\ cur' = cur + 1
    /\ pc' = IF cur < Len(contract_info) THEN "send" ELSE "done"
    /\ txhash' = NoTx
    /\ log' = Append(log, event)
    /\ UNCHANGED <<tries, dump, exit_status, raised>>

\* eth_sendTransaction answers with a transaction hash
send_accepted ==
    /\ pc = "send"
    /\ NumSends < MaxSends
    /\ chain' = Append(chain, [mod |-> cur, mined |-> FALSE, code |-> EmptyCode])
    /\ txcount' = txcount + 1
    /\ txhash' = Tx(txcount)
    /\ tries' = 0
    /\ pc' = AfterTry(0)
    /\ log' = Append(log, Event("accepted", <<>>))
    /\ UNCHANGED <<cur, DB, dump, exit_status, raised>>
    /\ UNCHANGED <<contract_info, shortcuts, last>>
    /\ UNCHANGED <<rpcVars, depVars>>

\* eth_sendTransaction answers 'Exceeds block gas limit' (code -32603);
\* has_result: the answer also carries a 'result' member (null)
send_gas_limit(estimate, has_result) ==
    /\ pc = "send"
    /\ NumSends < MaxSends
    /\ IF estimate < MAXGAS
       THEN \* time.sleep(BLOCKTIME); return broadcast_code(...)
            /\ pc' = "send"
            /\ log' = Append(log, Event("gas_limit", <<estimate>>))
            /\ UNCHANGED <<tries, txhash, raised>>
       ELSE \* print '... costs too much to compile!', then txhash = result['result']
            /\ log' = Append(log, Event("gas_limit", <<estimate>>))
            /\ IF has_result
               THEN /\ txhash' = NullTx
                    /\ tries' = 0
                    /\ pc' = AfterTry(0)
                    /\ UNCHANGED raised
               ELSE /\ raised' = "KeyError"
                    /\ pc' = "raised"
                    /\ UNCHANGED <<tries, txhash>>
    /\ UNCHANGED <<cur, DB, dump, exit_status, chain, txcount>>
    /\ UNCHANGED <<contract_info, shortcuts, last>>
    /\ UNCHANGED <<rpcVars, depVars>>

\* a mutant of the branch below: it aborts without writing the dump file
send_unknown_error_NoDump(code, message) ==
    /\ pc = "send"
    /\ NumSends < MaxSends
    /\ ~IsGasLimit(code, message)
    /\ exit_status' = 1
    /\ pc' = "exit"
    /\ log' = Append(log, Event("error", <<>>))
    /\ UNCHANGED <<cur, tries, txhash, DB, dump, raised, chain, txcount>>
    /\ UNCHANGED <<contract_info, shortcuts, last>>
    /\ UNCHANGED <<rpcVars, depVars>>

\* eth_sendTransaction answers any other error: dump DB and sys.exit(1)
send_unknown_error(code, message) ==
    /\ pc = "send"
    /\ NumSends < MaxSends
    /\ ~IsGasLimit(code, message)
    /\ dump' = DB
    /\ exit_status' = 1
    /\ pc' = "exit"
    /\ log' = Append(log, Event("error", <<>>))
    /\ UNCHANGED <<cur, tries, txhash, DB, raised, chain, txcount>>
    /\ UNCHANGED <<contract_info, shortcuts, last>>
    /\ UNCHANGED <<rpcVars, depVars>>

\* a mutant of the loop body below: a missing receipt ends the call
poll_ReturnsEarly ==
    /\ pc = "poll"
    /\ tries < TRIES
    /\ \E ch \in ChainsAfterSleep(chain) :
          /\ chain' = ch
          /\ IF HasReceipt(ch, txhash)
                /\ CodeAccepted(GetCode(ch, ReceiptAddress(txhash)), Evm(contract_info[cur]))
             THEN Return(ReceiptAddress(txhash),
                         Event("receipt", GetCode(ch, ReceiptAddress(txhash))))
             ELSE /\ cur' = cur + 1
                  /\ pc' = IF cur < Len(contract_info) THEN "send" ELSE "done"
                  /\ txhash' = NoTx
                  /\ log' = Append(log, IF HasReceipt(ch, txhash)
                                        THEN Event("receipt", GetCode(ch, ReceiptAddress(txhash)))
                                        ELSE Event("no_receipt", <<>>))
                  /\ UNCHANGED <<tries, DB, dump, exit_status, raised>>
    /\ UNCHANGED txcount
    /\ UNCHANGED <<contract_info, shortcuts, last>>
    /\ UNCHANGED <<rpcVars, depVars>>

\* a loop whose `tries += 1` sits under `if receipt is None`: a receipt whose
\* code is refused does not count
poll_CountsOnlyMissing ==
    /\ pc = "poll"
    /\ tries < TRIES
    /\ \E ch \in ChainsAfterSleep(chain) :
          /\ chain' = ch
          /\ IF HasReceipt(ch, txhash)
                /\ CodeAccepted(GetCode(ch, ReceiptAddress(txhash)), Evm(contract_info[cur]))
             THEN Return(ReceiptAddress(txhash),
                         Event("receipt", GetCode(ch, ReceiptAddress(txhash))))
             ELSE /\ tries' = IF HasReceipt(ch, txhash) THEN tries ELSE NextTries(tries)
                  /\ pc' = AfterTry(IF HasReceipt(ch, txhash) THEN tries ELSE NextTries(tries))
                  /\ log' = Append(log, IF HasReceipt(ch, txhash)
                                        THEN Event("receipt", GetCode(ch, ReceiptAddress(txhash)))
                                        ELSE Event("no_receipt", <<>>))
                  /\ UNCHANGED <<cur, txhash, DB, dump, exit_status, raised>>
    /\ UNCHANGED txcount
    /\ UNCHANGED <<contract_info, shortcuts, last>>
    /\ UNCHANGED <<rpcVars, depVars>>

\* one pass of `while tries < TRIES`: sleep a block interval, ask for the
\* receipt, and compare the code stored at the receipt's contractAddress
poll ==
    /\ pc = "poll"
    /\ tries < TRIES
    /\ \E ch \in ChainsAfterSleep(chain) :
          /\ chain' = ch
          /\ IF HasReceipt(ch, txhash)
                /\ CodeAccepted(GetCode(ch, ReceiptAddress(txhash)), Evm(contract_info[cur]))
             THEN Return(ReceiptAddress(txhash),
                         Event("receipt", GetCode(ch, ReceiptAddress(txhash))))
             ELSE /\ tries' = NextTries(tries)
                  /\ pc' = AfterTry(NextTries(tries))
                  /\ log' = Append(log, IF HasReceipt(ch, txhash)
                                        THEN Event("receipt", GetCode(ch, ReceiptAddress(txhash)))
                                        ELSE Event("no_receipt", <<>>))
                  /\ UNCHANGED <<cur, txhash, DB, dump, exit_status, raised>>
    /\ UNCHANGED txcount
    /\ UNCHANGED <<contract_info, shortcuts, last>>
    /\ UNCHANGED <<rpcVars, depVars>>

\* raw_input(...) answers; `if user_input in 'Yy'` calls broadcast_code again,
\* anything else prints ABORTING and DB and calls sys.exit(1)
prompt(user_input) ==
    /\ pc = "prompt"
    /\ log' = Append(log, Event("answer", user_input))
    /\ IF AnswerRetries(user_input)
       THEN /\ pc' = "send"
            /\ txhash' = NoTx
            /\ UNCHANGED exit_status
       ELSE /\ pc' = "exit"
            /\ exit_status' = 1
            /\ UNCHANGED txhash
    /\ UNCHANGED <<cur, tries, DB, dump, raised, chain, txcount>>
    /\ UNCHANGED <<contract_info, shortcuts, last>>
    /\ UNCHANGED <<rpcVars, depVars>>

\* raw_input meets the end of its input: EOFError, not caught
prompt_eof ==
    /\ pc = "prompt"
    /\ log' = Append(log, Event("eof", <<>>))
    /\ raised' = "EOFError"
    /\ pc' = "raised"
    /\ UNCHANGED <<cur, tries, txhash, DB, dump, exit_status, chain, txcount>>
    /\ UNCHANGED <<contract_info, shortcuts, last>>
    /\ UNCHANGED <<rpcVars, depVars>>

NextBroadcast ==
    \/ send_accepted
    \/ \E estimate \in Estimates, has_result \in BOOLEAN : send_gas_limit(estimate, has_result)
    \/ \E code \in ErrorCodes, message \in ErrorMessages : send_unknown_error(code, message)
    \/ poll
    \/ \E user_input \in Answers : prompt(user_input)
    \/ prompt_eof

SpecBroadcast == InitBroadcast /\ [][NextBroadcast]_vars

----------------------------------------------------------------------------
(* The whole build: the Compiler's methods in the order of the pipeline,   *)
(* then the broadcast of the modules                                       *)

\* source discovery: get_source_paths calls add_source_path for every entry
discover(dirname, basename) ==
    /\ last \in {"__init__", "add_source_path"}
    /\ add_source_path(dirname, basename)

allocate ==
    /\ last \in {"__init__", "add_source_path"}
    /\ assign_addresses

resolve ==
    /\ last = "assign_addresses"
    /\ populate_shortcuts

rewrite ==
    /\ last = "populate_shortcuts"
    /\ preprocess_with_macros

\* the rewritten modules are handed to the broadcaster
start_broadcast ==
    /\ last = "preprocess_with_macros"
    /\ raised = "None"
    /\ pc = "idle"
    /\ Len(contract_info) >= 1
    /\ pc' = "send"
    /\ cur' = 1
    /\ DB' = contract_info
    /\ UNCHANGED <<tries, txhash, chain, dump, exit_status, log>>
    /\ UNCHANGED <<contract_info, shortcuts, txcount, raised, last>>
    /\ UNCHANGED <<rpcVars, depVars>>

NextPipeline ==
    \/ \E d \in Dirs, b \in Basenames : discover(d, b)
    \/ allocate
    \/ resolve
    \/ rewrite
    \/ start_broadcast
    \/ NextBroadcast

SpecPipeline == InitBuild /\ [][NextPipeline]_vars

----------------------------------------------------------------------------
(* optimize_deps *)

\* the variables of the build and of broadcast_code while neither runs
NoBuild ==
    /\ contract_info = <<>>
    /\ shortcuts = EmptyDict
    /\ txcount = 0
    /\ raised = "None"
    /\ last = "None"

NoCast ==
    /\ pc = "idle"
    /\ cur = 0
    /\ tries = 0
    /\ txhash = NoTx
    /\ chain = <<>>
    /\ DB = <<>>
    /\ dump = <<>>
    /\ exit_status = -1
    /\ log = <<>>

Nodes == {"C1", "C2", "C3"}

\* the lists that hold every module once
Orders == {d \in [1..Cardinality(Nodes) -> Nodes] : \A i, j \in DOMAIN d : d[i] = d[j] => i = j}

\* contract_nodes: each module with the other modules it references
Graphs == {cn \in [Nodes -> SUBSET Nodes] : \A n \in Nodes : n \notin cn[n]}

\* d compiles every module after the modules it references
IsCompileOrder(d, cn) ==
    \A i \in DOMAIN d : \A n \in cn[d[i]] : \E j \in 1..(i - 1) : d[j] = n

HasCompileOrder(cn) == \E d \in Orders : IsCompileOrder(d, cn)

\* deps.index(CONTRACT), 1-based
IndexOf(d, x) == CHOOSE i \in DOMAIN d : d[i] = x /\ \A j \in 1..(i - 1) : d[j] # x

\* the loop of optimize_deps from position i on, new_deps being acc
RECURSIVE ScanDeps(_, _, _, _)
ScanDeps(d, cn, i, acc) ==
    IF i > Len(d) THEN acc
    ELSE ScanDeps(d, cn, i + 1,
                  IF \E m \in DOMAIN acc : acc[m] \in cn[d[i]]
                  THEN Append(acc, d[i])
                  ELSE acc)

\* the arguments: any reference graph; the compile order when the graph has
\* one, any order of the modules when references form a cycle
InitDeps ==
    /\ NoBuild
    /\ NoCast
    /\ Constructed
    /\ contract_nodes \in Graphs
    /\ deps \in Orders
    /\ HasCompileOrder(contract_nodes) => IsCompileOrder(deps, contract_nodes)
    /\ CONTRACT \in Nodes
    /\ new_deps = <<>>

optimize_deps ==
    /\ new_deps = <<>>
    /\ new_deps' = ScanDeps(deps, contract_nodes, IndexOf(deps, CONTRACT) + 1, <<CONTRACT>>)
    /\ UNCHANGED <<deps, contract_nodes, CONTRACT>>
    /\ UNCHANGED <<contract_info, shortcuts, txcount, raised, last>>
    /\ UNCHANGED castVars
    /\ UNCHANGED rpcVars

NextDeps == optimize_deps

SpecDeps == InitDeps /\ [][NextDeps]_vars

----------------------------------------------------------------------------
(* Compiler.__init__: the choice of the RPC client *)

Alphabet == {"h", "1", ".", ":", "/", "\n"}
Digits == {"1"}
WordChars == {"h", "1"}

DottedQuad == <<"1", ".", "1", ".", "1", ".", "1", ":", "1">>
DottedHost == <<"h", ".", "h", ":", "1">>

\* the address strings tried: every string up to MaxAddrLen and two longer ones
Addresses ==
    UNION {[1..n -> Alphabet] : n \in 1..MaxAddrLen} \cup {DottedQuad, DottedHost}

\* what the address names as a path of the file system
PathKinds == {"absent", "regular", "directory", "socket"}

\* \d{lo,hi} over the whole of p
IsDigits(p, lo, hi) == Len(p) \in lo..hi /\ \A i \in DOMAIN p : p[i] \in Digits

\* \w+ over the whole of p
IsWord(p) == p # <<>> /\ \A i \in DOMAIN p : p[i] \in WordChars

\* \d{1,3}\.\d{1,3}\.\d{1,3}\.\d{1,3} over the whole of p
IsIp(p) ==
    \E a, b, c \in DOMAIN p :
        /\ a < b /\ b < c
        /\ p[a] = "." /\ p[b] = "." /\ p[c] = "."
        /\ IsDigits(SubSeq(p, 1, a - 1), 1, 3)
        /\ IsDigits(SubSeq(p, a + 1, b - 1), 1, 3)
        /\ IsDigits(SubSeq(p, b + 1, c - 1), 1, 3)
        /\ IsDigits(SubSeq(p, c + 1, Len(p)), 1, 3)

\* $ matches at the end and before a newline that ends the string
BeforeEnd(p) == IF p # <<>> /\ p[Len(p)] = "\n" THEN SubSeq(p, 1, Len(p) - 1) ELSE p

\* http_pattern matches s with the colon at position c
MatchesAt(s, c) ==
    /\ s[c] = ":"
    /\ IsIp(SubSeq(s, 1, c - 1)) \/ IsWord(SubSeq(s, 1, c - 1))
    /\ \/ IsDigits(SubSeq(s, c + 1, Len(s)), 1, 5)
       \/ IsDigits(BeforeEnd(SubSeq(s, c + 1, Len(s))), 1, 5)

\* Compiler.http_pattern.match(rpc_address)
HttpMatch(s) == \E c \in DOMAIN s : MatchesAt(s, c)

\* int() of a string of digits
RECURSIVE DigitsValue(_)
DigitsValue(p) ==
    IF p = <<>> THEN 0
    ELSE 10 * DigitsValue(SubSeq(p, 1, Len(p) - 1))
         + (CHOOSE v \in 0..9 : <<"0", "1", "2", "3", "4", "5", "6", "7", "8", "9">>[v + 1] = p[Len(p)])

\* addr = ip if ip else d['host'], int(d['port'])
HttpAddr(s) ==
    LET c == CHOOSE c \in DOMAIN s : MatchesAt(s, c)
        port == SubSeq(s, c + 1, Len(s))
    IN  <<SubSeq(s, 1, c - 1),
          DigitsValue(IF IsDigits(port, 1, 5) THEN port ELSE BeforeEnd(port))>>

\* os.path.isfile(path): a regular file
OsPathIsfile(kind) == kind = "regular"

\* stat.S_ISSOCK(os.stat(path).st_mode)
IsSock(kind) == kind = "socket"

is_uds_addr(kind) == OsPathIsfile(kind) /\ IsSock(kind)

InitConstruct ==
    /\ NoBuild
    /\ NoCast
    /\ NoDeps
    /\ rpc_address \in Addresses
    /\ path_kind \in PathKinds
    /\ RpcClass = "None"

\* lines 76-89 of __init__
Compiler_init ==
    /\ last = "None"
    /\ last' = "__init__"
    /\ IF HttpMatch(rpc_address)
       THEN /\ rpc_address' = HttpAddr(rpc_address)
            /\ RpcClass' = "HTTPRPCClient"
            /\ UNCHANGED raised
       ELSE IF is_uds_addr(path_kind)
       THEN /\ RpcClass' = "IPCRPCClient"
            /\ UNCHANGED <<rpc_address, raised>>
       ELSE /\ raised' = "CompilerError"
            /\ UNCHANGED <<rpc_address, RpcClass>>
    /\ UNCHANGED <<contract_info, shortcuts, txcount, path_kind>>
    /\ UNCHANGED castVars
    /\ UNCHANGED depVars

NextConstruct == Compiler_init

SpecConstruct == InitConstruct /\ [][NextConstruct]_vars

----------------------------------------------------------------------------
(* Claims about the Compiler's methods *)

\* some import line of module k names a shortcut that is not in the table
UnresolvedImport(k) ==
    \E n \in 1..Len(FileLines(contract_info[k].path)) :
        LET line == FileLines(contract_info[k].path)[n]
        IN  ImportMatch(line) /\ line[2] \notin DOMAIN shortcuts

\* two modules of contract_info normalize to the same shortcut name
HasDuplicateShortcut ==
    \E i, j \in 1..Len(contract_info) :
        i < j /\ ShortcutOf(contract_info[i].path) = ShortcutOf(contract_info[j].path)

\* C1: right after assign_addresses has read the account's transaction count
\* as base, the module at index i (0-based) of contract_info holds
\* computeAddress(creator, base + i): the N modules take base .. base+N-1 in
\* order, without a gap and without reuse.
C1_ContiguousBlock ==
    last = "assign_addresses" =>
        \A k \in 1..Len(contract_info) :
            /\ "address" \in DOMAIN contract_info[k]
            /\ contract_info[k].address
                  = computeAddress(raw_creator_address, txcount + (k - 1))

C1_Witness ==
    /\ last = "assign_addresses"
    /\ Len(contract_info) = MaxModules
    /\ txcount = 1

\* C9: building the shortcut table from modules of which two normalize to the
\* same shortcut yields the DuplicateShortcut error, and a table built without
\* error pairs shortcut names and module records one to one.
C9_DuplicateShortcutRejected ==
    last = "populate_shortcuts" =>
        /\ HasDuplicateShortcut => raised = "DuplicateShortcut"
        /\ raised = "None" =>
              Cardinality(DOMAIN shortcuts) = Len(contract_info)

\* C10: rewriting a module with an import line that names a shortcut absent
\* from the table raises an error (KeyError) that ends the build, and leaves
\* that module without preprocessed source.
C10_UnresolvedImportFatal ==
    last = "preprocess_with_macros" =>
        /\ \A k \in 1..Len(contract_info) :
              UnresolvedImport(k) =>
                  /\ raised = "KeyError"
                  /\ "new_code" \notin DOMAIN contract_info[k]
        /\ raised # "None" => ~ENABLED NextBuild

C10_Witness ==
    /\ last = "preprocess_with_macros"
    /\ raised = "KeyError"
    /\ Len(contract_info) = 2
    /\ UnresolvedImport(2)
    /\ "new_code" \in DOMAIN contract_info[1]
    /\ "new_code" \notin DOMAIN contract_info[2]

----------------------------------------------------------------------------
(* Claims about broadcast_code *)

IsSend(p) == log[p].ev \in SendEvents

Deployed(k) == "deployed" \in DOMAIN DB[k]

\* the log entries made while module k was broadcast
EventsOf(k) == SelectSeq(log, LAMBDA e : e.mod = k)

EventNames(events) == [n \in 1..Len(events) |-> events[n].ev]

\* C2: eth_sendTransaction is called for the modules in the order of
\* contract_info (the order of their addresses), one module at a time: when a
\* module is submitted every earlier module has been confirmed.
C2_InOrderOneAtATime ==
    /\ \A p, q \in 1..Len(log) :
          (p < q /\ IsSend(p) /\ IsSend(q)) => log[p].mod <= log[q].mod
    /\ \A p \in 1..Len(log) :
          IsSend(p) => log[p].mod \in 1..Len(contract_info)
    /\ (Len(log) > 0 /\ IsSend(Len(log))) =>
          /\ cur = log[Len(log)].mod
          /\ \A j \in 1..(cur - 1) : Deployed(j)
          /\ \A j \in cur..Len(contract_info) : ~Deployed(j)

C2_Witness ==
    /\ Len(log) > 0
    /\ log[Len(log)].ev = "accepted"
    /\ log[Len(log)].mod = 2
    /\ Len(EventsOf(1)) > 2

\* C3: after a block-gas-limit rejection, an estimate below MAXGAS leads to a
\* resubmission, and an estimate at or above MAXGAS ends the module aborted:
\* the process has stopped and no transaction hash is recorded or polled for.
C3_TooCostlyAborts ==
    \A p \in 1..Len(log) :
        log[p].ev = "gas_limit" =>
            IF log[p].arg[1] < MAXGAS
            THEN p = Len(log) => pc = "send"
            ELSE /\ p = Len(log)
                 /\ pc \in {"exit", "raised"}
                 /\ txhash = NoTx

\* C4: a submission error other than the gas-limit rejection ends the build:
\* the whole manifest (confirmed, submitted and untried entries) is written
\* to the dump file, the exit status is 1 and nothing is submitted afterwards.
C4_UnknownErrorFatal ==
    \A p \in 1..Len(log) :
        log[p].ev = "error" =>
            /\ p = Len(log)
            /\ pc = "exit"
            /\ exit_status = 1
            /\ dump = DB
            /\ Len(dump) = Len(contract_info)
            /\ \A k \in 1..Len(dump) :
                  /\ dump[k].address = contract_info[k].address
                  /\ Deployed(k) <=> k < log[p].mod

C4_Witness ==
    /\ Len(log) > 0
    /\ log[Len(log)].ev = "error"
    /\ log[Len(log)].mod = 2
    /\ Deployed(1)
    /\ "deployed" \in DOMAIN dump[1]
    /\ "deployed" \notin DOMAIN dump[2]

\* C5: a module is confirmed only when a receipt exists and the code stored
\* at the module's computed address is non-empty and is part of the submitted
\* bytecode.
C5_ConfirmedAtComputedAddress ==
    (Len(log) > 0 /\ log[Len(log)].ev = "receipt" /\ Deployed(log[Len(log)].mod)) =>
        LET k == log[Len(log)].mod
            stored == GetCode(chain, contract_info[k].address)
        IN  /\ stored # EmptyCode
            /\ StrIn(From2(stored), Evm(contract_info[k]))

\* the last TRIES answers were all "no receipt", after an accepted submission
TimedOutUnseen ==
    /\ Len(log) > TRIES
    /\ log[Len(log) - TRIES].ev = "accepted"
    /\ \A q \in (Len(log) - TRIES + 1)..Len(log) : log[q].ev = "no_receipt"

ContinueAnswers == {<<>>, <<"Y">>, <<"y">>, <<"Y", "y">>}

\* C7 as stated: after the timeout only an explicit decision to continue
\* ('Y' or 'y') leads to a fresh submission; any other answer, the empty one
\* and the absent one included, ends the build with nothing submitted after it.
C7_RetryOnlyOnExplicitContinue ==
    \A p \in 1..Len(log) :
        /\ log[p].ev = "eof" => (p = Len(log) /\ pc = "raised")
        /\ log[p].ev = "answer" =>
              IF log[p].arg \in {<<"Y">>, <<"y">>}
              THEN p = Len(log) => pc = "send"
              ELSE p = Len(log) /\ pc = "exit" /\ exit_status = 1

\* C7 amended: the fresh submission happens exactly for the answers '', 'Y',
\* 'y' and 'Yy'; any other answer ends the build with exit status 1, the end
\* of the input ends it with an uncaught EOFError, and nothing is submitted
\* after either.
C7_RetryOnAnswerInYy ==
    \A p \in 1..Len(log) :
        /\ log[p].ev = "eof" => (p = Len(log) /\ pc = "raised" /\ raised = "EOFError")
        /\ log[p].ev = "answer" =>
              IF log[p].arg \in ContinueAnswers
              THEN p = Len(log) => (pc = "send" /\ cur = log[p].mod /\ exit_status = -1)
              ELSE p = Len(log) /\ pc = "exit" /\ exit_status = 1

C7_Witness ==
    \E p \in 1..Len(log) :
        /\ p < Len(log)
        /\ log[p].ev = "answer"
        /\ log[p].arg = <<>>
        /\ log[p + 1].ev = "accepted"
        /\ log[p + 1].mod = log[p].mod

\* the run of C8 for module k: one gas-limit rejection with an estimate under
\* MAXGAS, an accepted submission, and a first poll whose receipt shows the
\* module's runtime code
GasRetryRun(k) ==
    /\ Len(log) > 0
    /\ log[Len(log)].mod = k
    /\ EventNames(EventsOf(k)) = <<"gas_limit", "accepted", "receipt">>
    /\ EventsOf(k)[1].arg[1] < MAXGAS
    /\ EventsOf(k)[3].arg = RuntimeCode(contract_info[k])

NumSendsOf(k) == Cardinality({p \in 1..Len(log) : IsSend(p) /\ log[p].mod = k})

----------------------------------------------------------------------------
(* Claims about the rewriter and the precomputed addresses *)

HasImport(lines) == \E n \in 1..Len(lines) : ImportMatch(lines[n])

Rewritten == last = "preprocess_with_macros" /\ raised = "None"

\* C11: after preprocess_with_macros has run without error, the new code of
\* every module has as many lines as its file; each import line has become
\* the macro line binding that line's alias to the address precomputed for
\* the module the shortcut table gives for the imported name, and every other
\* line stands unchanged at its own position.
C11_RewriteBindsAliasToAddress ==
    Rewritten =>
        \A k \in 1..Len(contract_info) :
            LET lines == FileLines(contract_info[k].path)
            IN  /\ "new_code" \in DOMAIN contract_info[k]
                /\ Len(contract_info[k].new_code) = Len(lines)
                /\ \A n \in 1..Len(lines) :
                      IF ImportMatch(lines[n])
                      THEN /\ lines[n][2] \in DOMAIN shortcuts
                           /\ contract_info[k].new_code[n] =
                                 <<KwMacro, lines[n][4] \o <<":">>,
                                   contract_info[shortcuts[lines[n][2]]].address>>
                           /\ contract_info[shortcuts[lines[n][2]]].address =
                                 computeAddress(raw_creator_address,
                                                txcount + shortcuts[lines[n][2]] - 1)
                      ELSE contract_info[k].new_code[n] = lines[n]

\* a/f.se, importing g as G, was rewritten next to a/g.se
C11_Witness ==
    /\ Rewritten
    /\ Len(contract_info) = 2
    /\ contract_info[2].path = PathAF
    /\ contract_info[1].path = PathAG
    /\ contract_info[2].new_code[1] = <<KwMacro, <<"G", ":">>, contract_info[1].address>>
    /\ contract_info[2].new_code[2] = <<KwReturn, <<"1">>>>

\* C12: a module without any import line, once the rewriter has reached it,
\* has new code equal to its file, whatever the shortcut table holds; the
\* rewriter reaches it whenever no module before it fails a lookup.
C12_NoImportUnchanged ==
    \A k \in 1..Len(contract_info) :
        ~HasImport(FileLines(contract_info[k].path)) =>
            /\ "new_code" \in DOMAIN contract_info[k] =>
                    contract_info[k].new_code = FileLines(contract_info[k].path)
            /\ (/\ last = "preprocess_with_macros"
                /\ \A j \in 1..(k - 1) :
                       ~FileFails(shortcuts, contract_info, FileLines(contract_info[j].path)))
                    => "new_code" \in DOMAIN contract_info[k]

\* a/g.se, which imports nothing, was rewritten under the empty table
C12_Witness ==
    /\ last = "preprocess_with_macros"
    /\ shortcuts = EmptyDict
    /\ Len(contract_info) >= 1
    /\ contract_info[1].path = PathAG
    /\ "new_code" \in DOMAIN contract_info[1]
    /\ contract_info[1].new_code = FileLines(PathAG)

\* C14: the addresses assigned to two different modules differ, because the
\* seeds that are hashed (creator and nonce, RLP-encoded) differ.
C14_AddressesPairwiseDistinct ==
    \A j, k \in 1..Len(contract_info) :
        (/\ j # k
         /\ "address" \in DOMAIN contract_info[j]
         /\ "address" \in DOMAIN contract_info[k])
            => /\ contract_info[j].address # contract_info[k].address
               /\ contract_info[j].address[2][2] # contract_info[k].address[2][2]

C14_Witness ==
    /\ last = "assign_addresses"
    /\ Len(contract_info) = MaxModules
    /\ \A k \in 1..Len(contract_info) : "address" \in DOMAIN contract_info[k]

\* C19: rewriting the new code of a module again, under the same table,
\* gives the same new code, and no line the rewriter wrote is an import line.
C19_RewriteIdempotent ==
    Rewritten =>
        \A k \in 1..Len(contract_info) :
            LET lines == FileLines(contract_info[k].path)
                out == contract_info[k].new_code
            IN  /\ ~FileFails(shortcuts, contract_info, out)
                /\ NewCode(shortcuts, contract_info, out) = out
                /\ \A n \in 1..Len(out) :
                      (n <= Len(lines) /\ ImportMatch(lines[n])) => ~ImportMatch(out[n])

\* the rewritten a/f.se holds the macro line where the import line was
C19_Witness ==
    /\ Rewritten
    /\ \E k \in 1..Len(contract_info) :
          /\ contract_info[k].path = PathAF
          /\ contract_info[k].new_code[1][1] = KwMacro
          /\ NewCode(shortcuts, contract_info, contract_info[k].new_code)
                = contract_info[k].new_code

----------------------------------------------------------------------------
(* Claims about optimize_deps *)

\* the modules that reference a module of S, added to S until nothing is added
RECURSIVE DependentsFrom(_, _)
DependentsFrom(cn, S) ==
    LET T == S \cup {n \in Nodes : cn[n] \cap S # {}}
    IN  IF T = S THEN S ELSE DependentsFrom(cn, T)

Returned == {new_deps[i] : i \in DOMAIN new_deps}

\* C13: optimize_deps returns the changed module and every module that
\* references it directly or through other modules, and no other module.
C13_ExactlyTransitiveDependents ==
    new_deps # <<>> => Returned = DependentsFrom(contract_nodes, {CONTRACT})

----------------------------------------------------------------------------
(* Claims about the constructor *)

\* C15: the constructor ends in exactly one of three ways: the HTTP client
\* for an address that is a host:port pair, the local-socket client for any
\* other address that is the path of an existing Unix domain socket, and
\* CompilerError with no client chosen for every other address.
C15_EndpointSelection ==
    last = "__init__" =>
        IF RpcClass = "HTTPRPCClient" THEN raised = "None"
        ELSE /\ ~HttpMatch(rpc_address)
             /\ IF path_kind = "socket"
                THEN RpcClass = "IPCRPCClient" /\ raised = "None"
                ELSE RpcClass = "None" /\ raised = "CompilerError"

----------------------------------------------------------------------------
(* Claims about the polling loop *)

IsPoll(q) == log[q].ev \in {"no_receipt", "receipt"}

\* the receipt queries logged after position p
PollsAfter(p) == Cardinality({q \in (p + 1)..Len(log) : IsPoll(q)})

\* C17: at every moment, at most TRIES receipt queries have been made since
\* the latest call of eth_sendTransaction; while the loop runs the try
\* counter is the number of those queries, whatever they returned, and the
\* loop is left as soon as the counter reaches TRIES.
C17_PollsBoundedByTries ==
    /\ \A p \in 1..Len(log) :
          (IsSend(p) /\ \A x \in (p + 1)..Len(log) : ~IsSend(x)) =>
              /\ PollsAfter(p) <= TRIES
              /\ pc \in {"poll", "prompt"} => tries = PollsAfter(p)
    /\ pc \in {"poll", "prompt"} => \E p \in 1..Len(log) : IsSend(p)
    /\ pc = "poll" => tries < TRIES
    /\ pc = "prompt" => tries = TRIES

\* an accepted submission, a poll without receipt, then receipts whose code
\* is refused, TRIES polls in all, and the loop is left
C17_Witness ==
    /\ pc = "prompt"
    /\ tries = TRIES
    /\ Len(log) > TRIES
    /\ log[Len(log) - TRIES].ev = "accepted"
    /\ log[Len(log) - TRIES + 1].ev = "no_receipt"
    /\ log[Len(log)].ev = "receipt"
    /\ PollsAfter(Len(log) - TRIES) = TRIES

\* C16: the submissions of one module after its first are counted by an
\* attempt counter that has a bound: while a module is broadcast, the number
\* of its resubmissions never exceeds the try counter, and the try counter
\* never exceeds TRIES.
C16_ResubmissionsBounded ==
    (pc \in {"send", "poll", "prompt"} /\ cur \in 1..Len(contract_info)) =>
        /\ NumSendsOf(cur) - 1 <= tries
        /\ tries <= TRIES

----------------------------------------------------------------------------
(* Claims about the build as a whole *)

InTable(k) == \E sc \in DOMAIN shortcuts : shortcuts[sc] = k

\* C18: when the rewriter runs, every discovered module is an entry of the
\* shortcut table and every module has its address.
C18_TableCompleteBeforeRewrite ==
    last = "preprocess_with_macros" =>
        \A k \in 1..Len(contract_info) :
            InTable(k) /\ "address" \in DOMAIN contract_info[k]

SameModule(a, b) ==
    /\ a.path = b.path
    /\ ("address" \in DOMAIN a) = ("address" \in DOMAIN b)
    /\ "address" \in DOMAIN a => a.address = b.address

\* a step taken once the table is built keeps the table and the modules
StableStep ==
    last \in {"populate_shortcuts", "preprocess_with_macros"} =>
        /\ shortcuts' = shortcuts
        /\ Len(contract_info') = Len(contract_info)
        /\ \A k \in 1..Len(contract_info) :
              SameModule(contract_info'[k], contract_info[k])

\* C20: from the moment the shortcut table is built, every step of the build
\* (the rewriting, then every step of the broadcast) leaves the table as it
\* is, keeps every module record in its place, and keeps its path and its
\* address.
C20_TableAndListStable == [][StableStep]_vars

\* both modules were rewritten and broadcast, and hold the addresses they
\* had when the broadcast started
C20_Witness ==
    /\ pc = "done"
    /\ last = "preprocess_with_macros"
    /\ Len(contract_info) = 2
    /\ DOMAIN shortcuts = {<<"f">>, <<"g">>}
    /\ \A k \in 1..2 :
          /\ "new_code" \in DOMAIN contract_info[k]
          /\ contract_info[k].address = DB[k].address
          /\ Deployed(k)

====
